---- MODULE Spec2Model ----
(***************************************************************************)
(* PhotoMingle backend: the invitation state machine of eventController.js *)
(* (addInvitees, removeInvitee, respondToInvite behind the protect         *)
(* middleware) and the photo ingestion pipeline of photoController.js      *)
(* (uploadPhotos, processPhoto, deletePhoto, createNotification).          *)
(*                                                                         *)
(* Spec      : one event document, the invitation handlers run one after   *)
(*             the other (each action is a whole request).                 *)
(* PhotoSpec : photos of that event, one processPhoto run per photo, each  *)
(*             await of the run a step of its own, interleaved with the    *)
(*             other runs and with deletePhoto.                            *)
(* EventSpec : Spec with updateEvent and deleteEvent added.                *)
(* AddSpec   : addInvitees calls, each await a step of its own.            *)
(* VerifySpec: verifyInvitation between responses and removals.            *)
(* NotifySpec: createNotification calls, each await a step of its own.     *)
(* NotifyReadSpec: NotifySpec with markAsRead requests in between.         *)
(* SendSpec  : sendInvitations between removals of invitees.               *)
(* PhotoLiveSpec: PhotoSpec with every await of a run returning or failing.*)
(* PairSpec  : the runs of the photos of one upload, interleaved.         *)
(* RaceSpec  : addInvitees calls of the creator in flight together.        *)
(***************************************************************************)
EXTENDS Integers, Sequences, FiniteSets, TLC

VARIABLES
    event,          \* the persisted Event document: creator, invitees
    nextCode,       \* number of invite codes uuidv4() has handed out to saved entries
    issued,         \* history: <<invitee key, code>> of every entry ever persisted
    last,           \* the last request on the event routes and its response
    photos,         \* the persisted Photo collection: photo id -> document or NoDoc
    files,          \* photo ids whose uploaded file is on disk
    notifications,  \* the persisted Notification collection: per related photo (or NoPhoto), in creation order
    proc,           \* per photo: the processPhoto run (position and locals)
    calls,          \* per request slot: an addInvitees call in flight (position and locals)
    view,           \* the response of the last verifyInvitation or sendInvitations request
    outbox,         \* the emails handed to sendEmail, in order, each with its outcome
    notified        \* the outcome of the last createNotification call

vars == <<event, nextCode, issued, last, photos, files, notifications, proc,
          calls, view, outbox, notified>>

inviteVars == <<event, nextCode, issued, last>>
photoVars == <<photos, files, notifications, proc>>
callVars == <<calls, view, outbox, notified>>

----------------------------------------------------------------------------
(* Bounds of the model *)

\* invite codes generated over a run of Spec
MaxCodes == 2

\* photos uploaded over a run of PhotoSpec
MaxPhotos == 1

\* addInvitees calls in flight at a time in AddSpec
MaxCalls == 1

\* notification records created over a run of NotifySpec
MaxNotifications == 2

----------------------------------------------------------------------------
(* Identities *)

NoUser == "none"
NoEmail == "none"
NoCode == 0

\* relatedPhoto of a notification that relates to no photo, and the keys the
\* Notification collection is kept under.
NoPhoto == 0
NotificationKeys == (1..MaxPhotos) \cup {NoPhoto}
Anonymous == "anonymous"
CastError == "CastError"

\* The User collection: ObjectIds in their canonical (lower-case hex) string form.
Users == {"a1", "b2"}

\* user.email of each stored user
UserEmail(u) == IF u = "a1" THEN "a@x.com" ELSE "b@x.com"

\* Strings a request can carry as invitee.userId: the canonical id of a user, the
\* same 24 hex digits in upper case, a well-formed id of no user, a malformed id.
RawUserIds == {"a1", "A1", "b2", "c3", "zz"}

\* Emails a request can carry as invitee.email; "nope" fails the schema's match.
RawEmails == {"a@x.com", "b@x.com", "nope"}

\* ObjectId.toString(): the lower-case hex form.
ToHexString(raw) ==
    CASE raw = "A1" -> "a1"
      [] raw = "B2" -> "b2"
      [] OTHER -> raw

\* The cast of a string to the schema's ObjectId type (invitees.user, User._id):
\* 24 hex digits of either case give the ObjectId, anything else a CastError.
CastObjectId(raw) ==
    IF raw \in {"a1", "A1", "b2", "B2", "c3"} THEN ToHexString(raw) ELSE CastError

\* User.findById(id) for a castable id: the user, or null.
FindUserById(raw) ==
    IF CastObjectId(raw) \in Users THEN CastObjectId(raw) ELSE NoUser

\* The email validator of EventSchema.invitees.email.
ValidEmail(e) == e \in {"a@x.com", "b@x.com"}

\* The event of the model, and an id that resolves to no event.
TheEvent == "E"
MissingEvent == "E0"
EventIds == {TheEvent, MissingEvent}

\* Event.findById(id) finds a document.
EventFound(eventId) == eventId = TheEvent /\ event.exists

\* req.user as the protect middleware leaves it: set, or the request is rejected.
Callers == Users \cup {Anonymous}

\* event.creator.toString() !== req.user.id, the check each creator-only handler
\* makes after loading the event.
IsCreatorAny(caller) == TRUE

IsCreator(caller) == event.creator = caller

\* protect: a request without a valid token never reaches the handler.
ProtectOpen(caller) == TRUE

Protect(caller) == caller \in Users

----------------------------------------------------------------------------
(* addInvitees *)

InviteeSpecs ==
    {[userId |-> r, email |-> NoEmail] : r \in RawUserIds}
        \cup {[userId |-> NoUser, email |-> e] : e \in RawEmails}
        \cup {[userId |-> NoUser, email |-> NoEmail]}

\* req.body.invitees: one or two specs
Batches ==
    {<<s>> : s \in InviteeSpecs} \cup {<<s, t>> : s \in InviteeSpecs, t \in InviteeSpecs}

\* const inviteCode = uuidv4() of the k-th iteration: a value never returned before.
InviteCodeHoisted(counter, k) == counter + 1

InviteCodeFor(counter, k) == counter + k

\* event.invitees.some(inv => inv.user && inv.user.toString() === invitee.userId)
UserAlreadyInvited(invitees, rawId) ==
    \E i \in DOMAIN invitees :
        invitees[i].user # NoUser /\ ToHexString(invitees[i].user) = rawId

\* event.invitees.some(inv => inv.email === invitee.email)
EmailAlreadyInvited(invitees, email) ==
    \E i \in DOMAIN invitees : invitees[i].email = email

NewInvitee(id, user, email, code) ==
    [id |-> id, user |-> user, email |-> email, inviteCode |-> code, status |-> "pending"]

\* One iteration of the loop over req.body.invitees. acc = [invitees, error]: the
\* in-memory list and the error thrown so far (or "none"); id is the _id the
\* pushed subdocument gets.
ProcessInviteeRecreate(acc, invitee, code, id) ==
    IF acc.error # "none" THEN acc
    ELSE IF invitee.userId # NoUser
    THEN IF CastObjectId(invitee.userId) = CastError
         THEN [acc EXCEPT !.error = CastError]
         ELSE IF FindUserById(invitee.userId) = NoUser
         THEN acc
         ELSE [acc EXCEPT !.invitees =
                  SelectSeq(@, LAMBDA inv : inv.user # CastObjectId(invitee.userId))
                      \o <<NewInvitee(id, CastObjectId(invitee.userId),
                                      UserEmail(FindUserById(invitee.userId)), code)>>]
    ELSE IF invitee.email # NoEmail
    THEN [acc EXCEPT !.invitees =
             SelectSeq(@, LAMBDA inv : inv.email # invitee.email)
                 \o <<NewInvitee(id, NoUser, invitee.email, code)>>]
    ELSE acc

ProcessInvitee(acc, invitee, code, id) ==
    IF acc.error # "none" THEN acc
    ELSE IF invitee.userId # NoUser
    THEN IF CastObjectId(invitee.userId) = CastError
         THEN [acc EXCEPT !.error = CastError]
         ELSE IF FindUserById(invitee.userId) = NoUser
         THEN acc
         ELSE IF UserAlreadyInvited(acc.invitees, invitee.userId)
         THEN acc
         ELSE [acc EXCEPT !.invitees =
                  Append(@, NewInvitee(id, CastObjectId(invitee.userId),
                                       UserEmail(FindUserById(invitee.userId)), code))]
    ELSE IF invitee.email # NoEmail
    THEN IF EmailAlreadyInvited(acc.invitees, invitee.email)
         THEN acc
         ELSE [acc EXCEPT !.invitees = Append(@, NewInvitee(id, NoUser, invitee.email, code))]
    ELSE acc

\* for (const invitee of invitees) { ... }: iterations k..Len(batch)
RECURSIVE ProcessInvitees(_, _, _, _)
ProcessInvitees(acc, batch, k, counter) ==
    IF k > Len(batch) THEN acc
    ELSE ProcessInvitees(ProcessInvitee(acc, batch[k], InviteCodeFor(counter, k), counter + k),
                         batch, k + 1, counter)

\* event.save(): the document validators run over the whole list first.
SaveValidates(invitees) == \A i \in DOMAIN invitees : ValidEmail(invitees[i].email)

\* The key an entry is deduplicated by: its user identity, else its email.
InviteeKey(inv) == IF inv.user # NoUser THEN <<"user", inv.user>> ELSE <<"email", inv.email>>

\* A request and the response it got: the route, req.user (Anonymous when the
\* request carried no valid token), the HTTP status and the AppError message.
Response(op, caller, http, error) == [op |-> op, caller |-> caller, http |-> http, error |-> error]

NoRequest == Response("none", Anonymous, 0, "none")

Rejected(op, caller, http, error) ==
    /\ last' = Response(op, caller, http, error)
    /\ UNCHANGED <<event, nextCode, issued>>

AddInvitees(caller, eventId, batch) ==
    LET done == ProcessInvitees([invitees |-> event.invitees, error |-> "none"],
                                batch, 1, nextCode)
    IN  /\ nextCode + Len(batch) <= MaxCodes
        /\ IF ~Protect(caller)
           THEN Rejected("addInvitees", caller, 401, "Not authorized to access this route")
           ELSE IF ~EventFound(eventId)
           THEN Rejected("addInvitees", caller, 404, "Event not found")
           ELSE IF ~IsCreator(caller)
           THEN Rejected("addInvitees", caller, 401, "Not authorized to add invitees to this event")
           ELSE IF done.error # "none"
           THEN Rejected("addInvitees", caller, 404, "Resource not found")
           ELSE IF ~SaveValidates(done.invitees)
           THEN Rejected("addInvitees", caller, 400, "Please add a valid email")
           ELSE /\ event' = [event EXCEPT !.invitees = done.invitees]
                /\ nextCode' = nextCode + Len(batch)
                /\ issued' = issued \cup
                      {<<InviteeKey(done.invitees[i]), done.invitees[i].inviteCode>> :
                          i \in {j \in DOMAIN done.invitees :
                                    \A h \in DOMAIN event.invitees :
                                        event.invitees[h].id # done.invitees[j].id}}
                /\ last' = Response("addInvitees", caller, 200, "none")
        /\ UNCHANGED <<photoVars, callVars>>

----------------------------------------------------------------------------
(* removeInvitee *)

\* event.invitees.findIndex(inv => inv._id.toString() === req.params.inviteeId);
\* 0 stands for JavaScript's -1.
FindIndexById(invitees, id) ==
    IF \E i \in DOMAIN invitees : invitees[i].id = id
    THEN CHOOSE i \in DOMAIN invitees :
            invitees[i].id = id /\ \A j \in 1..(i - 1) : invitees[j].id # id
    ELSE 0

\* event.invitees.splice(index, 1)
SpliceToEnd(seq, index) == SubSeq(seq, 1, index - 1)

Splice(seq, index) == SubSeq(seq, 1, index - 1) \o SubSeq(seq, index + 1, Len(seq))

RemoveInvitee(caller, eventId, inviteeId) ==
    /\ IF ~Protect(caller)
       THEN Rejected("removeInvitee", caller, 401, "Not authorized to access this route")
       ELSE IF ~EventFound(eventId)
       THEN Rejected("removeInvitee", caller, 404, "Event not found")
       ELSE IF ~IsCreator(caller)
       THEN Rejected("removeInvitee", caller, 401,
                     "Not authorized to remove invitees from this event")
       ELSE IF FindIndexById(event.invitees, inviteeId) = 0
       THEN Rejected("removeInvitee", caller, 404, "Invitee not found")
       ELSE /\ event' = [event EXCEPT !.invitees =
                            Splice(@, FindIndexById(event.invitees, inviteeId))]
            /\ last' = Response("removeInvitee", caller, 200, "none")
            /\ UNCHANGED <<nextCode, issued>>
    /\ UNCHANGED <<photoVars, callVars>>

----------------------------------------------------------------------------
(* respondToInvite *)

ResponseStatuses == {"accepted", "declined", "pending"}

\* event.invitees.findIndex(inv => inv.inviteCode === inviteCode); 0 for -1.
FindIndexByCodeOrFirst(invitees, code) ==
    IF \E i \in DOMAIN invitees : invitees[i].inviteCode = code
    THEN CHOOSE i \in DOMAIN invitees :
            invitees[i].inviteCode = code /\ \A j \in 1..(i - 1) : invitees[j].inviteCode # code
    ELSE IF invitees # <<>> THEN 1 ELSE 0

FindIndexByCode(invitees, code) ==
    IF \E i \in DOMAIN invitees : invitees[i].inviteCode = code
    THEN CHOOSE i \in DOMAIN invitees :
            invitees[i].inviteCode = code /\ \A j \in 1..(i - 1) : invitees[j].inviteCode # code
    ELSE 0

\* Lines 293-299 on the matched entry: the status is set; the caller is bound
\* when the entry has no user yet.
UpdateInvitationRebind(inv, caller, status) ==
    [inv EXCEPT !.status = status, !.user = caller]

UpdateInvitation(inv, caller, status) ==
    [inv EXCEPT !.status = status,
                !.user = IF inv.user = NoUser THEN caller ELSE inv.user]

RespondToInvite(caller, eventId, status, code) ==
    LET idx == FindIndexByCode(event.invitees, code)
    IN  /\ IF ~Protect(caller)
           THEN Rejected("respondToInvite", caller, 401, "Not authorized to access this route")
           ELSE IF status \notin {"accepted", "declined"}
           THEN Rejected("respondToInvite", caller, 400, "Please provide valid status")
           ELSE IF code = NoCode
           THEN Rejected("respondToInvite", caller, 400, "Please provide invite code")
           ELSE IF ~EventFound(eventId)
           THEN Rejected("respondToInvite", caller, 404, "Event not found")
           ELSE IF idx = 0
           THEN Rejected("respondToInvite", caller, 400, "Invalid invite code")
           ELSE /\ event' = [event EXCEPT !.invitees[idx] =
                                UpdateInvitation(event.invitees[idx], caller, status)]
                /\ last' = Response("respondToInvite", caller, 200, "none")
                /\ UNCHANGED <<nextCode, issued>>
        /\ UNCHANGED <<photoVars, callVars>>

----------------------------------------------------------------------------
(* addInvitees, await by await: the load, each iteration of the loop, the save *)

CallIds == 1..MaxCalls

\* A request slot with no call in flight.
NoCall ==
    [pc |-> "idle", caller |-> Anonymous, batch |-> <<>>, k |-> 1, counter |-> 0,
     base |-> <<>>, doc |-> <<>>]

\* The entries pushed on the loaded document since the load.
Pushed(call) == SubSeq(call.doc, Len(call.base) + 1, Len(call.doc))

\* await Event.findById(req.params.id) and the checks before the loop; the codes
\* of the loop's uuidv4() calls are counter + 1 .. counter + Len(batch).
LoadEvent(c, caller, eventId, batch) ==
    /\ calls[c].pc = "idle"
    /\ nextCode + Len(batch) <= MaxCodes
    /\ IF ~Protect(caller)
       THEN /\ Rejected("addInvitees", caller, 401, "Not authorized to access this route")
            /\ UNCHANGED calls
       ELSE IF ~EventFound(eventId)
       THEN /\ Rejected("addInvitees", caller, 404, "Event not found")
            /\ UNCHANGED calls
       ELSE IF ~IsCreator(caller)
       THEN /\ Rejected("addInvitees", caller, 401, "Not authorized to add invitees to this event")
            /\ UNCHANGED calls
       ELSE /\ calls' = [calls EXCEPT ![c] =
                            [pc |-> "loop", caller |-> caller, batch |-> batch, k |-> 1,
                             counter |-> nextCode, base |-> event.invitees,
                             doc |-> event.invitees]]
            /\ nextCode' = nextCode + Len(batch)
            /\ UNCHANGED <<event, issued, last>>
    /\ UNCHANGED <<photoVars, view, outbox, notified>>

\* One iteration of the loop on the loaded document: await User.findById, the
\* duplicate check, the push. A CastError ends the call in the catch.
Iterate(c) ==
    LET call == calls[c]
        acc == ProcessInvitee([invitees |-> call.doc, error |-> "none"], call.batch[call.k],
                              InviteCodeFor(call.counter, call.k), call.counter + call.k)
    IN  /\ call.pc = "loop"
        /\ IF acc.error # "none"
           THEN /\ calls' = [calls EXCEPT ![c] = NoCall]
                /\ Rejected("addInvitees", call.caller, 404, "Resource not found")
           ELSE /\ calls' = [calls EXCEPT ![c] =
                                [call EXCEPT !.doc = acc.invitees,
                                             !.k = call.k + 1,
                                             !.pc = IF call.k = Len(call.batch)
                                                    THEN "save" ELSE "loop"]]
                /\ UNCHANGED inviteVars
        /\ UNCHANGED <<photoVars, view, outbox, notified>>

\* await event.save(): the validators run on the document in memory, then the
\* pushed entries are appended to the stored array in one update of the stored
\* document, which fails when the document is gone.
SaveEventEach(c) ==
    LET call == calls[c]
    IN  /\ call.pc = "save"
        /\ calls' = [calls EXCEPT ![c] = NoCall]
        /\ event' = [event EXCEPT !.invitees =
                        IF Len(Pushed(call)) = 0 THEN @ ELSE Append(@, Pushed(call)[1])]
        /\ last' = Response("addInvitees", call.caller, 200, "none")
        /\ UNCHANGED <<nextCode, issued>>
        /\ UNCHANGED <<photoVars, view, outbox, notified>>

SaveEvent(c) ==
    LET call == calls[c]
    IN  /\ call.pc = "save"
        /\ calls' = [calls EXCEPT ![c] = NoCall]
        /\ IF ~SaveValidates(call.doc)
           THEN Rejected("addInvitees", call.caller, 400, "Please add a valid email")
           ELSE IF ~event.exists
           THEN Rejected("addInvitees", call.caller, 500, "Server Error")
           ELSE /\ event' = [event EXCEPT !.invitees = @ \o Pushed(call)]
                /\ issued' = issued \cup
                      {<<InviteeKey(Pushed(call)[i]), Pushed(call)[i].inviteCode>> :
                          i \in DOMAIN Pushed(call)}
                /\ last' = Response("addInvitees", call.caller, 200, "none")
                /\ UNCHANGED nextCode
        /\ UNCHANGED <<photoVars, view, outbox, notified>>

----------------------------------------------------------------------------
(* updateEvent and deleteEvent *)

\* req.body of updateEvent: whether it passes eventValidation (name, date and
\* location given), and the fields of the schema it may carry beside them:
\* creator (NoUser when absent) and, when setInvitees, a whole invitees array.
BodyInvitees(invitees) ==
    {<<>>} \cup {[invitees EXCEPT ![i].status = s] :
                    i \in DOMAIN invitees, s \in {"pending", "accepted"}}

Bodies(invitees) ==
    [valid : {TRUE}, creator : {NoUser, "a1", "b2", "zz"}, setInvitees : {FALSE}, invitees : {<<>>}]
    \cup [valid : {FALSE}, creator : {NoUser}, setInvitees : {FALSE}, invitees : {<<>>}]
    \cup [valid : {TRUE}, creator : {NoUser}, setInvitees : {TRUE}, invitees : BodyInvitees(invitees)]

\* Event.findByIdAndUpdate(req.params.id, req.body, {new, runValidators}): every
\* path of the schema that the body names is set to the body's value, cast.
FindByIdAndUpdate(doc, body) ==
    [doc EXCEPT !.creator = IF body.creator # NoUser THEN CastObjectId(body.creator) ELSE @,
                !.invitees = IF body.setInvitees THEN body.invitees ELSE @]

UpdateEvent(caller, eventId, body) ==
    /\ IF ~Protect(caller)
       THEN Rejected("updateEvent", caller, 401, "Not authorized to access this route")
       ELSE IF ~body.valid
       THEN Rejected("updateEvent", caller, 400, "Event name is required")
       ELSE IF ~EventFound(eventId)
       THEN Rejected("updateEvent", caller, 404, "Event not found")
       ELSE IF ~IsCreator(caller)
       THEN Rejected("updateEvent", caller, 401, "Not authorized to update this event")
       ELSE IF body.creator # NoUser /\ CastObjectId(body.creator) = CastError
       THEN Rejected("updateEvent", caller, 404, "Resource not found")
       ELSE IF body.setInvitees /\ ~SaveValidates(body.invitees)
       THEN Rejected("updateEvent", caller, 400, "Please add a valid email")
       ELSE /\ event' = FindByIdAndUpdate(event, body)
            /\ last' = Response("updateEvent", caller, 200, "none")
            /\ UNCHANGED <<nextCode, issued>>
    /\ UNCHANGED <<photoVars, callVars>>

----------------------------------------------------------------------------
(* verifyInvitation *)

\* User.name, what populate('creator', 'name') loads.
UserName(u) == IF u = "a1" THEN "Ann" ELSE IF u = "b2" THEN "Bob" ELSE "none"

\* The data of a response that carries none.
NoData ==
    [event |-> [id |-> "none", creator |-> "none"],
     invitation |-> [id |-> 0, status |-> "none", inviteCode |-> NoCode]]

\* A verifyInvitation request (req.params) and the response it got.
View(eventId, code, http, error, data) ==
    [eventId |-> eventId, code |-> code, http |-> http, error |-> error, data |-> data]

NoView == View("none", NoCode, 0, "none", NoData)

\* .select('-invitees.user -invitees.email'): the loaded entries without these paths
SelectInvitees(invitees) ==
    [i \in DOMAIN invitees |->
        [id |-> invitees[i].id, status |-> invitees[i].status,
         inviteCode |-> invitees[i].inviteCode]]

\* event.invitees.find(inv => inv.inviteCode === code): its index, 0 for undefined
FindInvitationOrFirst(invitees, code) == FindIndexByCodeOrFirst(invitees, code)

FindInvitation(invitees, code) == FindIndexByCode(invitees, code)

\* The data of the 200 response, for the stored document and the found index.
VerifyDataWholeEntry(doc, idx) ==
    [event |-> [id |-> TheEvent, creator |-> UserName(doc.creator)],
     invitation |-> doc.invitees[idx]]

VerifyData(doc, idx) ==
    [event |-> [id |-> TheEvent, creator |-> UserName(doc.creator)],
     invitation |-> [id |-> SelectInvitees(doc.invitees)[idx].id,
                     status |-> SelectInvitees(doc.invitees)[idx].status,
                     inviteCode |-> SelectInvitees(doc.invitees)[idx].inviteCode]]

\* The response of verifyInvitation; a creator that populate cannot load makes
\* event.creator.name throw.
VerifyResponse(eventId, code) ==
    IF ~EventFound(eventId)
    THEN View(eventId, code, 404, "Event not found", NoData)
    ELSE IF FindInvitation(event.invitees, code) = 0
    THEN View(eventId, code, 400, "Invalid invitation code", NoData)
    ELSE IF event.creator \notin Users
    THEN View(eventId, code, 500, "Server Error", NoData)
    ELSE View(eventId, code, 200, "none",
              VerifyData(event, FindInvitation(event.invitees, code)))

\* GET /api/invite/verify/:eventId/:code, a public route: no protect.
VerifyInvitation(eventId, code) ==
    /\ view' = VerifyResponse(eventId, code)
    /\ UNCHANGED <<inviteVars, photoVars, calls, outbox, notified>>

----------------------------------------------------------------------------
(* createNotification *)

\* notificationData: the recipient, the email when the caller gives one, the
\* type and the photo the notification relates to.
NotificationData ==
    [recipient : Users, email : {NoEmail, "a@x.com", "nope"}, type : {"system"},
     relatedPhoto : 1..MaxPhotos]

\* The document Notification.create stores for the data: isSent false by default.
NotificationDoc(data) ==
    [recipient |-> data.recipient, email |-> data.email, type |-> data.type,
     relatedEvent |-> TheEvent, relatedPhoto |-> data.relatedPhoto, isRead |-> FALSE,
     isSent |-> FALSE]

\* A createNotification call: where it stands, its data, the place of its
\* record in the collection (0: none) and the notification object in memory.
NoOutcome ==
    [pc |-> "idle", data |-> NotificationDoc([recipient |-> NoUser, email |-> NoEmail,
                                             type |-> "none", relatedPhoto |-> 1]),
     index |-> 0, doc |-> NotificationDoc([recipient |-> NoUser, email |-> NoEmail,
                                          type |-> "none", relatedPhoto |-> 1])]

\* The number of records in the collection.
RECURSIVE CountNotifications(_)
CountNotifications(ps) ==
    IF ps = {} THEN 0
    ELSE LET p == CHOOSE q \in ps : TRUE
         IN  Len(notifications[p]) + CountNotifications(ps \ {p})

\* A caller calls createNotification(notificationData).
CallNotification(data) ==
    /\ notified.pc \in {"idle", "returned", "thrown"}
    /\ CountNotifications(DOMAIN notifications) < MaxNotifications
    /\ notified' = [pc |-> "create", data |-> NotificationDoc(data), index |-> 0,
                    doc |-> NotificationDoc(data)]
    /\ UNCHANGED <<inviteVars, photoVars, calls, view, outbox>>

\* The catch of createNotification: the error of Notification.create is logged
\* and thrown on to the caller.
CreateFailedSwallowed(call) ==
    [call EXCEPT !.pc = IF call.data.email # NoEmail THEN "send" ELSE "returned"]

CreateFailed(call) == [call EXCEPT !.pc = "thrown"]

\* await Notification.create(notificationData): the record is validated and
\* stored, or the creation fails; then `if (notification.email)`.
CreateRecord ==
    LET p == notified.data.relatedPhoto
    IN  /\ notified.pc = "create"
        /\ \/ /\ notified.data.email # NoEmail => ValidEmail(notified.data.email)
              /\ notifications' =
                    [notifications EXCEPT ![p] = Append(@, notified.data)]
              /\ notified' = [notified EXCEPT
                                !.index = Len(notifications[p]) + 1,
                                !.pc = IF notified.data.email # NoEmail
                                       THEN "send" ELSE "returned"]
           \/ /\ notified' = CreateFailed(notified)
              /\ UNCHANGED notifications
        /\ UNCHANGED <<inviteVars, photos, files, proc, calls, view, outbox>>

\* The catch of sendNotificationEmail: the error is logged, nothing is thrown,
\* and createNotification returns the notification.
DeliveryFailedRetried(call) == [call EXCEPT !.pc = "send"]

DeliveryFailedRethrown(call) == [call EXCEPT !.pc = "thrown"]

DeliveryFailed(call) == [call EXCEPT !.pc = "returned"]

\* The _id of the record of a call: the photo it relates to and its place there.
NotificationId(call) == <<call.data.relatedPhoto, call.index>>

\* An email handed to sendEmail for the notification of a call, and whether
\* sendEmail resolved.
Delivery(call, sent) ==
    [to |-> call.data.email, notification |-> NotificationId(call), sent |-> sent]

\* await sendEmail(emailContent) in sendNotificationEmail; then
\* notification.isSent = true on the object in memory.
SendNotificationEmail ==
    /\ notified.pc = "send"
    /\ \/ /\ outbox' = Append(outbox, Delivery(notified, TRUE))
          /\ notified' = [notified EXCEPT !.pc = "saveSent", !.doc.isSent = TRUE]
       \/ /\ outbox' = Append(outbox, Delivery(notified, FALSE))
          /\ notified' = DeliveryFailed(notified)
    /\ UNCHANGED <<inviteVars, photoVars, calls, view>>

\* await notification.save() of the record with isSent set, or its failure.
SaveSent ==
    LET p == notified.data.relatedPhoto
    IN  /\ notified.pc = "saveSent"
        /\ \/ /\ notifications' = [notifications EXCEPT ![p][notified.index].isSent = TRUE]
              /\ notified' = [notified EXCEPT !.pc = "returned"]
           \/ /\ UNCHANGED notifications
              /\ notified' = DeliveryFailed(notified)
        /\ UNCHANGED <<inviteVars, photos, files, proc, calls, view, outbox>>

\* markAsRead: the notification is loaded, its recipient checked against
\* req.user.id, isRead set and saved (only the modified path is written).
MarkAsReadStatus(caller, p, i) ==
    IF ~Protect(caller) THEN 401
    ELSE IF i \notin DOMAIN notifications[p] THEN 404
    ELSE IF notifications[p][i].recipient # caller THEN 401
    ELSE 200

MarkAsRead(caller, p, i) ==
    /\ IF MarkAsReadStatus(caller, p, i) = 200
       THEN notifications' = [notifications EXCEPT ![p][i].isRead = TRUE]
       ELSE UNCHANGED notifications
    /\ UNCHANGED <<inviteVars, photos, files, proc, callVars>>

----------------------------------------------------------------------------
(* sendInvitations *)

\* req.body.inviteeIds: _ids of invitee entries; 0 is the _id of no entry.
InviteeIds == 0..MaxCodes

\* What the external calls of one iteration do: sendEmail resolves and the
\* notification (if any) is created, sendEmail rejects, or createNotification throws.
SendOutcomes == {"sent", "email failed", "notification failed"}

\* The response of sendInvitations for the requested ids.
Invitations(eventId, ids, http, error, sent, failed) ==
    [eventId |-> eventId, ids |-> ids, http |-> http, error |-> error,
     data |-> [sent |-> sent, failed |-> failed]]

\* The notification sendInvitations creates for an invitee bound to a user.
EventInvite(invitee) ==
    [recipient |-> invitee.user, email |-> NoEmail, type |-> "event_invite",
     relatedEvent |-> TheEvent, relatedPhoto |-> NoPhoto, isRead |-> FALSE, isSent |-> FALSE]

\* The invitation email of an invitee, and whether sendEmail resolved.
InvitationEmail(invitee, sent) ==
    [to |-> invitee.email, notification |-> <<NoPhoto, 0>>, sent |-> sent]

\* A loop that ends at the first failure.
AfterFailureBreak(ids, k) == Len(ids) + 1

\* After a failed iteration the loop goes on with the next id.
AfterFailure(ids, k) == k + 1

\* The loop over inviteeIds from entry k on. acc = [sent, failed, emails,
\* created]: the two lists of the response, the emails handed to sendEmail and
\* the notification records created.
RECURSIVE SendLoop(_, _, _, _, _)
SendLoop(invitees, ids, outcomes, k, acc) ==
    IF k > Len(ids) THEN acc
    ELSE LET idx == FindIndexById(invitees, ids[k])
             inv == invitees[idx]
         IN  IF idx = 0
             THEN SendLoop(invitees, ids, outcomes, AfterFailure(ids, k),
                    [acc EXCEPT !.failed = Append(@, [id |-> ids[k], email |-> NoEmail,
                                                     reason |-> "Invitee not found in event"])])
             ELSE IF outcomes[k] = "email failed"
             THEN SendLoop(invitees, ids, outcomes, AfterFailure(ids, k),
                    [acc EXCEPT !.emails = Append(@, InvitationEmail(inv, FALSE)),
                                !.failed = Append(@, [id |-> ids[k], email |-> inv.email,
                                                     reason |-> "Failed to send email"])])
             ELSE IF inv.user # NoUser /\ outcomes[k] = "notification failed"
             THEN SendLoop(invitees, ids, outcomes, AfterFailure(ids, k),
                    [acc EXCEPT !.emails = Append(@, InvitationEmail(inv, TRUE)),
                                !.failed = Append(@, [id |-> ids[k], email |-> inv.email,
                                                     reason |-> "Failed to send email"])])
             ELSE SendLoop(invitees, ids, outcomes, k + 1,
                    [acc EXCEPT !.emails = Append(@, InvitationEmail(inv, TRUE)),
                                !.created = IF inv.user # NoUser
                                            THEN Append(@, EventInvite(inv)) ELSE @,
                                !.sent = Append(@, [id |-> ids[k], email |-> inv.email])])

\* POST /api/invite/:eventId behind protect and inviteValidation; the event is
\* read and never saved.
SendInvitations(caller, eventId, ids, outcomes) ==
    LET done == SendLoop(event.invitees, ids, outcomes, 1,
                         [sent |-> <<>>, failed |-> <<>>, emails |-> <<>>, created |-> <<>>])
        refused(http, error) ==
            /\ view' = Invitations(eventId, ids, http, error, <<>>, <<>>)
            /\ UNCHANGED <<outbox, notifications>>
    IN  /\ Len(outbox) + Len(ids) <= MaxNotifications
        /\ Len(notifications[NoPhoto]) + Len(ids) <= MaxNotifications
        /\ IF ~Protect(caller)
           THEN refused(401, "Not authorized to access this route")
           ELSE IF Len(ids) = 0
           THEN refused(400, "InviteeIds cannot be empty")
           ELSE IF ~EventFound(eventId)
           THEN refused(404, "Event not found")
           ELSE IF ~IsCreator(caller)
           THEN refused(401, "Not authorized to send invitations for this event")
           ELSE /\ view' = Invitations(eventId, ids, 200, "none", done.sent, done.failed)
                /\ outbox' = outbox \o done.emails
                /\ notifications' = [notifications EXCEPT ![NoPhoto] = @ \o done.created]
        /\ UNCHANGED <<inviteVars, photos, files, proc, calls, notified>>

----------------------------------------------------------------------------
(* Photos, the face registry and notifications *)

PhotoIds == 1..MaxPhotos

\* No document under that id (never created, or deleted).
NoDoc == [exists |-> FALSE, uploader |-> NoUser, detectedFaces |-> <<>>, isProcessed |-> FALSE]

\* Photo.create({... event, uploader}): detectedFaces [] and isProcessed false by default.
NewPhoto(uploader) ==
    [exists |-> TRUE, uploader |-> uploader, detectedFaces |-> <<>>, isProcessed |-> FALSE]

\* ExternalImageId of a registered face: the id of the user who indexed it
\* (indexFace(path, user.id)); "c3" is the id of a user that no longer exists.
ExternalImageIds == {"a1", "b2", "c3"}

\* A FaceMatch of searchFacesByImage: Face.FaceId, Face.ExternalImageId, Similarity
\* (at least FaceMatchThreshold).
FaceMatchThreshold == 90

FaceMatch(x) == [FaceId |-> x, ExternalImageId |-> x, Similarity |-> FaceMatchThreshold + 5]

\* searchResult.FaceMatches: no, one or two matches
FaceMatchLists ==
    {<<>>} \cup {<<FaceMatch(x)>> : x \in ExternalImageIds}
           \cup {<<FaceMatch(x), FaceMatch(y)>> : x \in ExternalImageIds, y \in ExternalImageIds}

\* detectResult.FaceDetails.length
FaceCounts == {0, 2}

\* The entry pushed on photo.detectedFaces for a match.
DetectedFace(match) ==
    [faceId |-> match.FaceId, user |-> match.ExternalImageId, confidence |-> match.Similarity]

\* A notification that always names the first photo.
PhotoTaggedFirst(match, p) ==
    [recipient |-> match.ExternalImageId, email |-> NoEmail, type |-> "photo_tagged",
     relatedEvent |-> TheEvent, relatedPhoto |-> 1, isRead |-> FALSE, isSent |-> FALSE]

\* The notification record created for a match of photo p.
PhotoTagged(match, p) ==
    [recipient |-> match.ExternalImageId, email |-> NoEmail, type |-> "photo_tagged",
     relatedEvent |-> TheEvent, relatedPhoto |-> p, isRead |-> FALSE, isSent |-> FALSE]

\* A processPhoto run: where it stands, the faces pushed on the in-memory photo,
\* what detectFaces and searchFaces returned, the loop index.
NotScheduled ==
    [pc |-> "idle", pushed |-> <<>>, faceCount |-> 0, searched |-> FALSE,
     matches |-> <<>>, k |-> 1, result |-> "none"]

\* An upload that calls processPhoto for no photo.
ScheduledNever == [NotScheduled EXCEPT !.pc = "idle"]

\* An upload that awaits processPhoto before it goes on.
ScheduledAwaited == [NotScheduled EXCEPT !.pc = "done", !.result = "completed"]

\* processPhoto(photo._id) has been called.
Scheduled == [NotScheduled EXCEPT !.pc = "findPhoto"]

\* The run ends: completed, or aborted by a return or by the catch.
Ended(run, result) == [run EXCEPT !.pc = "done", !.result = result]

\* A catch that schedules the run again.
CaughtRetried(run, result) == Scheduled

\* The catch of processPhoto: the error is logged and the run ends.
Caught(run, result) == Ended(run, result)

----------------------------------------------------------------------------
(* uploadPhotos and deletePhoto *)

\* Photo ids never used so far.
FreePhotoIds == {p \in PhotoIds : proc[p].pc = "idle"}

\* event.invitees.some(invitee => invitee.user && invitee.user.toString() === req.user.id)
IsInvitee(caller) ==
    \E i \in DOMAIN event.invitees :
        event.invitees[i].user # NoUser /\ ToHexString(event.invitees[i].user) = caller

\* The status uploadPhotos answers with.
UploadStatus(caller, eventId, fileCount) ==
    IF ~Protect(caller) THEN 401
    ELSE IF fileCount = 0 THEN 400
    ELSE IF ~EventFound(eventId) THEN 404
    ELSE IF event.creator # caller /\ ~IsInvitee(caller) THEN 401
    ELSE 201

\* One photo record per file, and processPhoto(photo._id) called for each without
\* await; a rejected upload creates nothing.
UploadPhotos(caller, eventId, fileCount) ==
    LET new == {p \in FreePhotoIds : Cardinality({q \in FreePhotoIds : q < p}) < fileCount}
    IN  /\ fileCount <= Cardinality(FreePhotoIds)
        /\ IF UploadStatus(caller, eventId, fileCount) = 201
           THEN /\ photos' = [p \in PhotoIds |-> IF p \in new THEN NewPhoto(caller) ELSE photos[p]]
                /\ files' = files \cup new
                /\ proc' = [p \in PhotoIds |-> IF p \in new THEN Scheduled ELSE proc[p]]
           ELSE UNCHANGED <<photos, files, proc>>
        /\ UNCHANGED <<notifications, inviteVars, callVars>>

\* A deletePhoto that checks neither the uploader nor the creator.
DeleteStatusAnyUser(caller, p) ==
    IF ~Protect(caller) THEN 401
    ELSE IF ~photos[p].exists THEN 404
    ELSE IF ~event.exists THEN 404
    ELSE 200

\* The status deletePhoto answers with.
DeleteStatus(caller, p) ==
    IF ~Protect(caller) THEN 401
    ELSE IF ~photos[p].exists THEN 404
    ELSE IF ~event.exists THEN 404
    ELSE IF photos[p].uploader # caller /\ event.creator # caller THEN 401
    ELSE 200

\* fs.unlinkSync(photo.path) when the file exists, then photo.deleteOne().
DeletePhoto(caller, p) ==
    /\ IF DeleteStatus(caller, p) = 200
       THEN /\ files' = files \ {p}
            /\ photos' = [photos EXCEPT ![p] = NoDoc]
       ELSE UNCHANGED <<photos, files>>
    /\ UNCHANGED <<proc, notifications, inviteVars, callVars>>

\* deleteEvent: the creator deletes the event document (its photos stay).
DeleteEvent(caller) ==
    /\ event.exists
    /\ caller = event.creator
    /\ event' = [event EXCEPT !.exists = FALSE]
    /\ UNCHANGED <<nextCode, issued, last, photoVars, callVars>>

----------------------------------------------------------------------------
(* processPhoto: one action per await *)

Step(p, run) == proc' = [proc EXCEPT ![p] = run]

\* const photo = await Photo.findById(photoId)
FindPhoto(p) ==
    /\ proc[p].pc = "findPhoto"
    /\ IF photos[p].exists
       THEN Step(p, [proc[p] EXCEPT !.pc = "findEvent"])
       ELSE Step(p, Ended(proc[p], "photo not found"))
    /\ UNCHANGED <<photos, files, notifications, inviteVars, callVars>>

\* const event = await Event.findById(photo.event).populate(...)
FindEvent(p) ==
    /\ proc[p].pc = "findEvent"
    /\ IF event.exists
       THEN Step(p, [proc[p] EXCEPT !.pc = "detectFaces"])
       ELSE Step(p, Ended(proc[p], "event not found"))
    /\ UNCHANGED <<photos, files, notifications, inviteVars, callVars>>

\* await detectFaces(photo.path): the file is read, then the registry answers or
\* fails; no faces: isProcessed is set on the in-memory photo and saved.
DetectFaces(p) ==
    /\ proc[p].pc = "detectFaces"
    /\ \/ Step(p, Caught(proc[p], "detect failed"))
       \/ /\ p \in files
          /\ \E n \in FaceCounts :
                Step(p, [proc[p] EXCEPT !.faceCount = n,
                                        !.pc = IF n = 0 THEN "saveNoFaces" ELSE "searchFaces"])
    /\ UNCHANGED <<photos, files, notifications, inviteVars, callVars>>

\* photo.save() of a document that was loaded: an update of the stored document,
\* which fails when the document is gone.
SavePhotoFlagOnly(p, result) ==
    /\ IF photos[p].exists
       THEN /\ photos' = [photos EXCEPT ![p].isProcessed = TRUE]
            /\ Step(p, Ended(proc[p], result))
       ELSE /\ UNCHANGED photos
            /\ Step(p, Ended(proc[p], "save failed"))

\* A save that inserts the document when it is gone.
SavePhotoUpsert(p, result) ==
    /\ photos' = [photos EXCEPT ![p].exists = TRUE,
                                ![p].detectedFaces = @ \o proc[p].pushed,
                                ![p].isProcessed = TRUE]
    /\ Step(p, Ended(proc[p], result))

SavePhoto(p, result) ==
    /\ IF photos[p].exists
       THEN /\ photos' = [photos EXCEPT ![p].detectedFaces = @ \o proc[p].pushed,
                                        ![p].isProcessed = TRUE]
            /\ Step(p, Ended(proc[p], result))
       ELSE /\ UNCHANGED photos
            /\ Step(p, Ended(proc[p], "save failed"))

\* photo.isProcessed = true; await photo.save(); return  (no face detected)
SaveNoFacesSkipped(p) ==
    /\ proc[p].pc = "saveNoFaces"
    /\ Step(p, Ended(proc[p], "completed"))
    /\ UNCHANGED <<photos, files, notifications, inviteVars, callVars>>

SaveNoFaces(p) ==
    /\ proc[p].pc = "saveNoFaces"
    /\ SavePhoto(p, "completed")
    /\ UNCHANGED <<files, notifications, inviteVars, callVars>>

\* The loop over searchResult.FaceMatches stands before match k.
NextMatch(run, k) ==
    [run EXCEPT !.k = k, !.pc = IF k > Len(run.matches) THEN "savePhoto" ELSE "findUser"]

\* await searchFaces(photo.path)
SearchFaces(p) ==
    /\ proc[p].pc = "searchFaces"
    /\ \/ Step(p, Caught([proc[p] EXCEPT !.searched = TRUE], "search failed"))
       \/ /\ p \in files
          /\ \E ms \in FaceMatchLists :
                Step(p, NextMatch([proc[p] EXCEPT !.searched = TRUE, !.matches = ms], 1))
    /\ UNCHANGED <<photos, files, notifications, inviteVars, callVars>>

\* const user = await User.findById(userId); if (user) the face is pushed on the
\* in-memory photo and createNotification is called; else the loop goes on.
AfterFindUserStop(run) ==
    IF FindUserById(run.matches[run.k].ExternalImageId) # NoUser
    THEN [run EXCEPT !.pushed = Append(@, DetectedFace(run.matches[run.k])),
                     !.pc = "createNotification"]
    ELSE NextMatch(run, Len(run.matches) + 1)

AfterFindUser(run) ==
    IF FindUserById(run.matches[run.k].ExternalImageId) # NoUser
    THEN [run EXCEPT !.pushed = Append(@, DetectedFace(run.matches[run.k])),
                     !.pc = "createNotification"]
    ELSE NextMatch(run, run.k + 1)

\* A loop that saves the photo at each face it pushes.
FindUserSaving(p) ==
    /\ proc[p].pc = "findUser"
    /\ Step(p, AfterFindUser(proc[p]))
    /\ photos' = IF photos[p].exists
                 THEN [photos EXCEPT ![p].detectedFaces = AfterFindUser(proc[p]).pushed]
                 ELSE photos
    /\ UNCHANGED <<files, notifications, inviteVars, callVars>>

FindUser(p) ==
    /\ proc[p].pc = "findUser"
    /\ Step(p, AfterFindUser(proc[p]))
    /\ UNCHANGED <<photos, files, notifications, inviteVars, callVars>>

\* createNotification: Notification.create(notificationData) stores the record, or
\* fails and the error is thrown on; the record has no email, so nothing is sent.
NotificationCreatedNone(list, record) == list

NotificationCreated(list, record) == Append(list, record)

CreateNotification(p) ==
    /\ proc[p].pc = "createNotification"
    /\ \/ /\ notifications' =
                [notifications EXCEPT ![p] =
                    NotificationCreated(@, PhotoTagged(proc[p].matches[proc[p].k], p))]
          /\ Step(p, NextMatch(proc[p], proc[p].k + 1))
       \/ /\ UNCHANGED notifications
          /\ Step(p, Caught(proc[p], "notification failed"))
    /\ UNCHANGED <<photos, files, inviteVars, callVars>>

\* A final save that never returns when the document is gone.
SaveProcessedHangs(p) ==
    /\ proc[p].pc = "savePhoto"
    /\ photos[p].exists
    /\ SavePhoto(p, "completed")
    /\ UNCHANGED <<files, notifications, inviteVars, callVars>>

\* photo.isProcessed = true; await photo.save()  (after the loop)
SaveProcessed(p) ==
    /\ proc[p].pc = "savePhoto"
    /\ SavePhoto(p, "completed")
    /\ UNCHANGED <<files, notifications, inviteVars, callVars>>

----------------------------------------------------------------------------
(* Spec: the invitation handlers, one request at a time *)

\* The state after createEvent by user a1: creator set, no invitee.
InitEvent == [exists |-> TRUE, creator |-> "a1", invitees |-> <<>>]

Init ==
    /\ event = InitEvent
    /\ nextCode = 0
    /\ issued = {}
    /\ last = NoRequest
    /\ photos = [p \in PhotoIds |-> NoDoc]
    /\ files = {}
    /\ notifications = [p \in NotificationKeys |-> <<>>]
    /\ proc = [p \in PhotoIds |-> NotScheduled]
    /\ calls = [c \in CallIds |-> NoCall]
    /\ view = NoView
    /\ outbox = <<>>
    /\ notified = NoOutcome

\* A request for an event that does not resolve is tried with one batch only.
AddInviteesAction ==
    \E c \in Callers, e \in EventIds, b \in Batches :
        /\ e = TheEvent \/ b = <<[userId |-> NoUser, email |-> NoEmail]>>
        /\ AddInvitees(c, e, b)

\* A request for an event that does not resolve is tried with one id or code only.
RemoveInviteeAction ==
    \E c \in Callers, e \in EventIds, id \in 1..MaxCodes :
        /\ e = TheEvent \/ id = 1
        /\ RemoveInvitee(c, e, id)

RespondToInviteAction ==
    \E c \in Callers, e \in EventIds, s \in ResponseStatuses, k \in 0..MaxCodes :
        /\ e = TheEvent \/ (s = "accepted" /\ k = 1)
        /\ RespondToInvite(c, e, s, k)

Next == AddInviteesAction \/ RemoveInviteeAction \/ RespondToInviteAction

Spec == Init /\ [][Next]_vars

----------------------------------------------------------------------------
(* PhotoSpec: uploads, processPhoto runs and deletions of the event's photos *)

\* The event after addInvitees([{userId: "b2"}]) by its creator a1.
InitPhotoEvent ==
    [InitEvent EXCEPT !.invitees = <<NewInvitee(1, "b2", UserEmail("b2"), 1)>>]

InitPhoto ==
    /\ event = InitPhotoEvent
    /\ nextCode = 1
    /\ issued = {<<InviteeKey(InitPhotoEvent.invitees[1]), 1>>}
    /\ last = Response("addInvitees", "a1", 200, "none")
    /\ photos = [p \in PhotoIds |-> NoDoc]
    /\ files = {}
    /\ notifications = [p \in NotificationKeys |-> <<>>]
    /\ proc = [p \in PhotoIds |-> NotScheduled]
    /\ calls = [c \in CallIds |-> NoCall]
    /\ view = NoView
    /\ outbox = <<>>
    /\ notified = NoOutcome

UploadPhotosAction ==
    \E c \in Callers, e \in EventIds, n \in 0..MaxPhotos :
        /\ e = TheEvent \/ n = 1
        /\ UploadPhotos(c, e, n)

DeletePhotoAction == \E c \in Callers, p \in PhotoIds : DeletePhoto(c, p)

DeleteEventAction == \E c \in Users : DeleteEvent(c)

ProcessPhoto(p) ==
    \/ FindPhoto(p)
    \/ FindEvent(p)
    \/ DetectFaces(p)
    \/ SaveNoFaces(p)
    \/ SearchFaces(p)
    \/ FindUser(p)
    \/ CreateNotification(p)
    \/ SaveProcessed(p)

ProcessPhotoAction == \E p \in PhotoIds : ProcessPhoto(p)

NextPhoto ==
    \/ UploadPhotosAction
    \/ DeletePhotoAction
    \/ DeleteEventAction
    \/ ProcessPhotoAction

PhotoSpec == InitPhoto /\ [][NextPhoto]_vars

\* PhotoLiveSpec: PhotoSpec where every await of a scheduled run returns or
\* fails, so that a run that can make a step eventually makes one.
PhotoLiveSpec == PhotoSpec /\ \A p \in PhotoIds : WF_vars(ProcessPhoto(p))

----------------------------------------------------------------------------
(* EventSpec: every handler that writes the event document, one request at a time *)

\* A request the handler rejects before the update is tried with one body only.
UpdateEventAction ==
    \E c \in Callers, e \in EventIds, b \in Bodies(event.invitees) :
        /\ (c = event.creator /\ e = TheEvent) \/ (b.creator = NoUser /\ ~b.setInvitees)
        /\ UpdateEvent(c, e, b)

NextEvent ==
    \/ AddInviteesAction
    \/ RemoveInviteeAction
    \/ RespondToInviteAction
    \/ UpdateEventAction
    \/ DeleteEventAction

EventSpec == Init /\ [][NextEvent]_vars

----------------------------------------------------------------------------
(* AddSpec: addInvitees calls, each await a step of its own *)

\* The batches of AddSpec: one or two specs over fewer identities.
StepSpecs == {s \in InviteeSpecs : s.userId \in {NoUser, "a1", "zz"} /\ s.email \in {NoEmail, "b@x.com", "nope"}}

StepBatches == {<<s>> : s \in StepSpecs} \cup {<<s, t>> : s \in StepSpecs, t \in StepSpecs}

LoadEventAction ==
    \E c \in CallIds, u \in Callers, e \in EventIds, b \in StepBatches :
        /\ (u = event.creator /\ e = TheEvent) \/ b = <<[userId |-> NoUser, email |-> NoEmail]>>
        /\ LoadEvent(c, u, e, b)

IterateAction == \E c \in CallIds : Iterate(c)

SaveEventAction == \E c \in CallIds : SaveEvent(c)

NextAdd == LoadEventAction \/ IterateAction \/ SaveEventAction

AddSpec == Init /\ [][NextAdd]_vars

----------------------------------------------------------------------------
(* RaceSpec: addInvitees calls of the creator in flight together *)

\* The request slots of RaceSpec: one more than AddSpec has, so that two
\* calls are in flight together.
RaceIds == 1..(MaxCalls + 1)

InitRace ==
    /\ event = InitEvent
    /\ nextCode = 0
    /\ issued = {}
    /\ last = NoRequest
    /\ photos = [p \in PhotoIds |-> NoDoc]
    /\ files = {}
    /\ notifications = [p \in NotificationKeys |-> <<>>]
    /\ proc = [p \in PhotoIds |-> NotScheduled]
    /\ calls = [c \in RaceIds |-> NoCall]
    /\ view = NoView
    /\ outbox = <<>>
    /\ notified = NoOutcome

LoadRaceAction ==
    \E c \in RaceIds, b \in StepBatches : LoadEvent(c, event.creator, TheEvent, b)

IterateRaceAction == \E c \in RaceIds : Iterate(c)

SaveRaceAction == \E c \in RaceIds : SaveEvent(c)

NextRace == LoadRaceAction \/ IterateRaceAction \/ SaveRaceAction

RaceSpec == InitRace /\ [][NextRace]_vars

----------------------------------------------------------------------------
(* VerifySpec: verifyInvitation between responses and removals *)

\* The event after addInvitees([{userId: "b2"}, {email: "a@x.com"}]) by a1.
InitVerifyEvent ==
    [InitEvent EXCEPT !.invitees = <<NewInvitee(1, "b2", UserEmail("b2"), 1),
                                     NewInvitee(2, NoUser, "a@x.com", 2)>>]

InitVerify ==
    /\ event = InitVerifyEvent
    /\ nextCode = 2
    /\ issued = {<<InviteeKey(InitVerifyEvent.invitees[i]), i>> : i \in {1, 2}}
    /\ last = Response("addInvitees", "a1", 200, "none")
    /\ photos = [p \in PhotoIds |-> NoDoc]
    /\ files = {}
    /\ notifications = [p \in NotificationKeys |-> <<>>]
    /\ proc = [p \in PhotoIds |-> NotScheduled]
    /\ calls = [c \in CallIds |-> NoCall]
    /\ view = NoView
    /\ outbox = <<>>
    /\ notified = NoOutcome

VerifyInvitationAction ==
    \E e \in EventIds, k \in 1..(MaxCodes + 1) : VerifyInvitation(e, k)

NextVerify ==
    \/ VerifyInvitationAction
    \/ RespondToInviteAction
    \/ RemoveInviteeAction
    \/ DeleteEventAction

VerifySpec == InitVerify /\ [][NextVerify]_vars

----------------------------------------------------------------------------
(* NotifySpec: createNotification calls, each await a step of its own *)

CallNotificationAction == \E data \in NotificationData : CallNotification(data)

NextNotify ==
    \/ CallNotificationAction
    \/ CreateRecord
    \/ SendNotificationEmail
    \/ SaveSent

NotifySpec == Init /\ [][NextNotify]_vars

----------------------------------------------------------------------------
(* NotifyReadSpec: NotifySpec with markAsRead requests in between *)

MarkAsReadAction ==
    \E c \in Callers, p \in PhotoIds, i \in 1..MaxNotifications : MarkAsRead(c, p, i)

NextNotifyRead ==
    \/ CallNotificationAction
    \/ CreateRecord
    \/ SendNotificationEmail
    \/ SaveSent
    \/ MarkAsReadAction

NotifyReadSpec == Init /\ [][NextNotifyRead]_vars

----------------------------------------------------------------------------
(* SendSpec: sendInvitations between removals, on an event with two invitees *)

\* The id lists a request carries: no id, one id or two ids (the same id twice included).
IdLists ==
    {<<>>} \cup {<<x>> : x \in InviteeIds} \cup {<<x, y>> : x \in InviteeIds, y \in InviteeIds}

SendInvitationsAction ==
    \E c \in Callers, e \in EventIds, ids \in IdLists :
        \E outcomes \in [DOMAIN ids -> SendOutcomes] :
            /\ (c = "a1" /\ e = TheEvent) \/ (Len(ids) <= 1 /\ \A k \in DOMAIN ids : outcomes[k] = "sent")
            /\ SendInvitations(c, e, ids, outcomes)

\* The creator removes an invitee of the event.
RemoveByCreatorAction ==
    \E id \in 1..MaxCodes : RemoveInvitee(event.creator, TheEvent, id)

NextSend ==
    \/ SendInvitationsAction
    \/ RemoveByCreatorAction

SendSpec == InitVerify /\ [][NextSend]_vars

----------------------------------------------------------------------------
(* PairSpec: the processPhoto runs of the photos of one upload, interleaved *)

\* The photos of one upload of several files.
PairIds == 1..(MaxPhotos + 1)

\* The state after uploadPhotos of these files by the invitee b2: a record
\* and a file per photo, each run scheduled and none started.
InitPair ==
    /\ event = InitPhotoEvent
    /\ nextCode = 1
    /\ issued = {<<InviteeKey(InitPhotoEvent.invitees[1]), 1>>}
    /\ last = Response("addInvitees", "a1", 200, "none")
    /\ photos = [p \in PairIds |-> NewPhoto("b2")]
    /\ files = PairIds
    /\ notifications = [p \in PairIds \cup {NoPhoto} |-> <<>>]
    /\ proc = [p \in PairIds |-> Scheduled]
    /\ calls = [c \in CallIds |-> NoCall]
    /\ view = NoView
    /\ outbox = <<>>
    /\ notified = NoOutcome

ProcessPairAction == \E p \in PairIds : ProcessPhoto(p)

NextPair == ProcessPairAction

PairSpec == InitPair /\ [][NextPair]_vars

----------------------------------------------------------------------------
(* Properties of the invitation handlers, checked under Spec *)

SameUserTwice(invitees) ==
    \E i, j \in DOMAIN invitees :
        i # j /\ invitees[i].user # NoUser /\ invitees[i].user = invitees[j].user

SameEmailTwice(invitees) ==
    \E i, j \in DOMAIN invitees : i # j /\ invitees[i].email = invitees[j].email

SameEmailOnlyTwice(invitees) ==
    \E i, j \in DOMAIN invitees :
        /\ i # j
        /\ invitees[i].user = NoUser /\ invitees[j].user = NoUser
        /\ invitees[i].email = invitees[j].email

\* The entries of `after` whose _id is not in `before`: those a call appended.
Appended(before, after) ==
    {j \in DOMAIN after : \A i \in DOMAIN before : before[i].id # after[j].id}

\* Every entry of `before` is in `after`, at its place and unchanged.
KeepsEntries(before, after) ==
    /\ Len(after) >= Len(before)
    /\ \A i \in DOMAIN before : after[i] = before[i]

\* C1: every addInvitees call on a list holding no two entries for one user
\* identity and no two entries for one email leaves such a list, so that no
\* sequence of addInvitees calls on a new event produces a duplicate.
C1_AddInviteesNeverDuplicates ==
    [][(last'.op = "addInvitees"
            /\ ~SameUserTwice(event.invitees) /\ ~SameEmailTwice(event.invitees))
        => (~SameUserTwice(event'.invitees) /\ ~SameEmailTwice(event'.invitees))]_vars

\* C2: in every reachable state at most one entry is bound to any user identity
\* and at most one email-only entry exists per email.
C2_OneEntryPerIdentity ==
    ~SameUserTwice(event.invitees) /\ ~SameEmailOnlyTwice(event.invitees)

C6_BindingImmutable ==
    [][last'.op = "respondToInvite"
        => /\ Len(event'.invitees) = Len(event.invitees)
           /\ \A i \in DOMAIN event.invitees :
                 /\ event.invitees[i].user # NoUser
                       => event'.invitees[i].user = event.invitees[i].user
                 /\ event'.invitees[i] =
                       [event.invitees[i] EXCEPT !.status = event'.invitees[i].status,
                                                 !.user = event'.invitees[i].user]]_vars

\* C6 witness: the only entry, bound to one user, was just answered by another.
C6_Witness ==
    /\ last.op = "respondToInvite" /\ last.http = 200
    /\ Len(event.invitees) = 1
    /\ event.invitees[1].user \in Users \ {last.caller}

C12_NonCreatorRefused ==
    [][(/\ last'.op \in {"addInvitees", "removeInvitee"}
        /\ last'.caller # event.creator
        /\ event.exists /\ last'.error # "Event not found")
       => (last'.http = 401 /\ event' = event)]_vars

\* C12 witness: a user who is not the creator was just refused the removal of
\* an entry that is in the list.
C12_Witness ==
    /\ last.op = "removeInvitee" /\ last.http = 401
    /\ last.caller \in Users \ {event.creator}
    /\ \E i \in DOMAIN event.invitees : event.invitees[i].id = 1

\* The spec names a user identity that does not resolve to a user.
Unresolved(spec) == spec.userId # NoUser /\ FindUserById(spec.userId) = NoUser

\* The spec names a user identity that casts to an id and matches no user.
UnknownUser(spec) == Unresolved(spec) /\ CastObjectId(spec.userId) # CastError

WithoutUnresolved(batch) == SelectSeq(batch, LAMBDA spec : ~Unresolved(spec))

\* The entries without what is generated per call (_id and invite code).
Plain(invitees) ==
    [i \in DOMAIN invitees |->
        [user |-> invitees[i].user, email |-> invitees[i].email, status |-> invitees[i].status]]

\* What addInvitees by the creator leaves in the list for a batch.
Accepted(batch) ==
    Plain(ProcessInvitees([invitees |-> event.invitees, error |-> "none"],
                          batch, 1, nextCode).invitees)

\* C13: an addInvitees call by the creator whose batch holds a spec naming a
\* user identity that does not resolve (the emails of the batch being valid)
\* answers 200 and leaves the list it would have left without that spec: the
\* entries of all the other specs that resolve and are no duplicates.
C13_UnresolvedSkipped ==
    [][\A b \in Batches :
          (/\ last'.op = "addInvitees" /\ last'.caller = event.creator /\ event.exists
           /\ \E i \in DOMAIN b : Unresolved(b[i])
           /\ \A i \in DOMAIN b : b[i].email # NoEmail => ValidEmail(b[i].email)
           /\ AddInvitees(event.creator, TheEvent, b))
          => (/\ last'.http = 200
              /\ Plain(event'.invitees) = Accepted(WithoutUnresolved(b)))]_vars

\* C13 for the identities that cast to an id and match no user: such a spec is
\* skipped and the rest of the batch is processed and saved.
C13_UnknownUserSkipped ==
    [][\A b \in Batches :
          (/\ last'.op = "addInvitees" /\ last'.caller = event.creator /\ event.exists
           /\ \E i \in DOMAIN b : UnknownUser(b[i])
           /\ \A i \in DOMAIN b : b[i].userId # NoUser => CastObjectId(b[i].userId) # CastError
           /\ \A i \in DOMAIN b : b[i].email # NoEmail => ValidEmail(b[i].email)
           /\ AddInvitees(event.creator, TheEvent, b))
          => (/\ last'.http = 200
              /\ Plain(event'.invitees) = Accepted(WithoutUnresolved(b)))]_vars

\* C15: removeInvitee by the creator on the existing event with an id that no
\* entry carries answers 404 and leaves the event unchanged; with the id of an
\* entry it answers 200 and the stored list is the list before without that
\* one entry, every other entry unchanged and in the same order.
C15_RemoveExactlyOne ==
    [][\A id \in 1..MaxCodes :
          (/\ last'.op = "removeInvitee" /\ last'.caller = event.creator /\ event.exists
           /\ RemoveInvitee(event.creator, TheEvent, id))
          => IF \A i \in DOMAIN event.invitees : event.invitees[i].id # id
             THEN last'.http = 404 /\ event' = event
             ELSE /\ last'.http = 200
                  /\ Len(event'.invitees) = Len(event.invitees) - 1
                  /\ event'.invitees = SelectSeq(event.invitees, LAMBDA inv : inv.id # id)
                  /\ event'.creator = event.creator /\ event'.exists]_vars

\* C15 witness: the first of two entries was just removed; the second, which
\* had been answered, is what the list holds.
C15_Witness ==
    /\ last.op = "removeInvitee" /\ last.http = 200
    /\ Len(event.invitees) = 1
    /\ event.invitees[1].id = 2 /\ event.invitees[1].status = "accepted"

\* C16: the status of an entry (followed by its _id) changes only in a
\* successful respondToInvite call and only to accepted or declined, never back
\* to pending; a respondToInvite call whose status is neither, reaching the
\* handler, answers 400 and changes nothing; an answered entry can be answered
\* again with the other status.
C16_StatusOnlyByResponse ==
    [][/\ \A i \in DOMAIN event.invitees, j \in DOMAIN event'.invitees :
             (/\ event.invitees[i].id = event'.invitees[j].id
              /\ event.invitees[i].status # event'.invitees[j].status)
             => /\ last'.op = "respondToInvite" /\ last'.http = 200
                /\ event'.invitees[j].status \in {"accepted", "declined"}
       /\ \A c \in Users, e \in EventIds, k \in 0..MaxCodes :
             (last'.op = "respondToInvite" /\ RespondToInvite(c, e, "pending", k))
             => (last'.http = 400 /\ event' = event)
       /\ \A c \in Users, k \in 1..MaxCodes, s \in {"accepted", "declined"} :
             (/\ last'.op = "respondToInvite" /\ event.exists
              /\ \E i \in DOMAIN event.invitees :
                    event.invitees[i].inviteCode = k /\ event.invitees[i].status # "pending"
              /\ RespondToInvite(c, TheEvent, s, k))
             => (/\ last'.http = 200
                 /\ \E i \in DOMAIN event'.invitees :
                       event'.invitees[i].inviteCode = k /\ event'.invitees[i].status = s)]_vars

----------------------------------------------------------------------------
(* Properties of the stepwise addInvitees, checked under AddSpec *)

\* The list the loop of a call leaves in memory: the list it loaded plus the
\* entries of all its accepted specs.
AllAccepted(call) ==
    ProcessInvitees([invitees |-> call.base, error |-> "none"],
                    call.batch, 1, call.counter).invitees

\* C14: the stored invitee list changes only in the save step of an addInvitees
\* call, which runs after the whole batch is processed and appends the entries
\* of all the accepted specs at once, each pending; no other step of a call
\* writes the event, and a call that ends in an error has written nothing.
C14_SingleAtomicSave ==
    [][/\ event' # event
          => \E c \in CallIds :
                /\ calls[c].pc = "save" /\ calls'[c].pc = "idle"
                /\ calls[c].k = Len(calls[c].batch) + 1
                /\ calls[c].doc = AllAccepted(calls[c])
                /\ event'.invitees = event.invitees \o Pushed(calls[c])
                /\ \A i \in DOMAIN Pushed(calls[c]) : Pushed(calls[c])[i].status = "pending"
                /\ last'.http = 200
       /\ \A c \in CallIds :
             (calls[c].pc # "idle" /\ calls'[c].pc = "idle" /\ last'.http # 200)
             => event' = event]_vars

\* C14 witness: the loop of a call has accepted two specs and stands before its
\* save, the stored list still being the list the call loaded.
C14_Witness ==
    \E c \in CallIds :
        /\ calls[c].pc = "save"
        /\ Len(Pushed(calls[c])) = 2
        /\ event.invitees = calls[c].base

----------------------------------------------------------------------------
(* Properties of verifyInvitation, checked under VerifySpec *)

\* The step is a verifyInvitation request: the recorded response is new.
Verifies == view' # view

\* The request's event does not resolve, or its code matches no entry.
Unresolvable(v) ==
    \/ v.eventId # TheEvent \/ ~event.exists
    \/ \A i \in DOMAIN event.invitees : event.invitees[i].inviteCode # v.code

\* C17 as stated: verifyInvitation changes nothing of the stored state, and it
\* answers 404 both when the event does not resolve and when the code matches
\* no invitee of the event.
C17_VerifyNotFound ==
    [][Verifies
        => /\ UNCHANGED <<event, nextCode, issued, last, photoVars>>
           /\ Unresolvable(view') => view'.http = 404]_vars

\* C17, amended: verifyInvitation changes nothing of the stored state; it
\* answers 404 when the event does not resolve, 400 when the event resolves and
\* the code matches no invitee of it, and 200 otherwise.
C17_VerifyReadOnly ==
    [][Verifies
        => /\ UNCHANGED <<event, nextCode, issued, last, photoVars>>
           /\ view'.http =
                 IF view'.eventId # TheEvent \/ ~event.exists THEN 404
                 ELSE IF Unresolvable(view') THEN 400
                 ELSE 200]_vars

\* C17 witness: a request with a code that no entry of the existing event
\* carries was refused, the list holding an answered entry.
C17_Witness ==
    /\ view.eventId = TheEvent /\ event.exists
    /\ view.http = 400
    /\ \E i \in DOMAIN event.invitees : event.invitees[i].status = "accepted"
    /\ \A i \in DOMAIN event.invitees : event.invitees[i].inviteCode # view.code

\* The stored document with every invitee's user identity and email blanked.
Redacted(doc) ==
    [doc EXCEPT !.invitees =
        [i \in DOMAIN doc.invitees |->
            [doc.invitees[i] EXCEPT !.user = NoUser, !.email = NoEmail]]]

\* C18: the data of a successful verifyInvitation response holds, beside the
\* event's id and its creator's name, the matched entry's id, status and code
\* and nothing else: it is the data the same request gets when every invitee's
\* user identity and email are blanked in the stored document.
C18_ViewRedacted ==
    [][(Verifies /\ view'.http = 200)
        => /\ DOMAIN view'.data = {"event", "invitation"}
           /\ DOMAIN view'.data.invitation = {"id", "status", "inviteCode"}
           /\ DOMAIN view'.data.event = {"id", "creator"}
           /\ view'.data =
                 VerifyData(Redacted(event), FindInvitation(event.invitees, view'.code))
           /\ \E i \in DOMAIN event.invitees :
                 /\ event.invitees[i].inviteCode = view'.code
                 /\ view'.data.invitation.id = event.invitees[i].id
                 /\ view'.data.invitation.status = event.invitees[i].status]_vars

\* C18 witness: the last request was answered with the view of an entry that is
\* bound to a user and has an email, beside another entry with an email.
C18_Witness ==
    /\ view.http = 200
    /\ Len(event.invitees) = 2
    /\ \E i \in DOMAIN event.invitees :
          /\ event.invitees[i].inviteCode = view.code
          /\ event.invitees[i].user \in Users
          /\ event.invitees[i].email # NoEmail
          /\ view.data.invitation.status = event.invitees[i].status
          /\ view.data.invitation.status = "declined"

----------------------------------------------------------------------------
(* Properties of processPhoto, checked under PhotoSpec *)

\* The match resolves: User.findById(ExternalImageId) returns a user.
Resolves(match) == FindUserById(match.ExternalImageId) \in Users

AllResolve(matches) == \A i \in DOMAIN matches : Resolves(matches[i])

ResolvedMatches(matches) == SelectSeq(matches, Resolves)

FacesOf(matches) == [i \in DOMAIN matches |-> DetectedFace(matches[i])]

TagsOf(matches, p) == [i \in DOMAIN matches |-> PhotoTagged(matches[i], p)]

\* The run of photo p ends in this step.
Ends(p) == proc[p].pc # "done" /\ proc'[p].pc = "done"

\* C8: when a run whose detect reported at least one face and whose N matches
\* all resolve completes, the stored photo holds exactly the N faces of the
\* matches, in match order, and exactly N photo_tagged notifications were
\* created for the photo, one per match, addressed to the match's user and
\* referencing the event and the photo; and whenever the stored isProcessed of
\* such a photo is true, the N faces are stored and the N notifications exist.
C8_AllMatchesRecorded ==
    /\ [][\A p \in PhotoIds :
            (Ends(p) /\ proc'[p].result = "completed"
                /\ proc'[p].faceCount >= 1 /\ AllResolve(proc'[p].matches))
            => /\ photos'[p].exists /\ photos'[p].isProcessed
               /\ photos'[p].detectedFaces = FacesOf(proc'[p].matches)
               /\ notifications'[p] = TagsOf(proc'[p].matches, p)]_vars
    /\ [](\A p \in PhotoIds :
            (photos[p].isProcessed /\ proc[p].faceCount >= 1 /\ AllResolve(proc[p].matches))
            => /\ photos[p].detectedFaces = FacesOf(proc[p].matches)
               /\ notifications[p] = TagsOf(proc[p].matches, p))

\* A completed run with two matches of two users: two faces, two notifications.
C8_Witness ==
    \E p \in PhotoIds :
        /\ proc[p].result = "completed" /\ proc[p].faceCount >= 1
        /\ Len(proc[p].matches) = 2 /\ AllResolve(proc[p].matches)
        /\ proc[p].matches[1] # proc[p].matches[2]
        /\ photos[p].isProcessed /\ Len(photos[p].detectedFaces) = 2
        /\ Len(notifications[p]) = 2

\* C9 as stated: every run whose detect reported no face ends with isProcessed
\* stored as true on the photo, an empty stored face list, no search call and
\* no notification.
C9_NoFacesAlwaysProcessed ==
    [][\A p \in PhotoIds :
        (proc[p].pc = "saveNoFaces" /\ Ends(p))
        => /\ photos'[p].exists /\ photos'[p].isProcessed
           /\ photos'[p].detectedFaces = <<>>
           /\ ~proc'[p].searched /\ notifications'[p] = <<>>]_vars

\* C9, amended: a run whose detect reported no face makes no search call and
\* creates no notification; when the photo document still exists at the save
\* the run completes, and the save sets isProcessed and nothing else, keeping
\* the face list empty; when the photo was deleted meanwhile the save fails
\* and nothing is stored.
C9_NoFacesProcessedIfStored ==
    /\ [][\A p \in PhotoIds :
            (proc[p].pc = "saveNoFaces" /\ Ends(p))
            => IF photos[p].exists
               THEN /\ proc'[p].result = "completed"
                    /\ photos'[p] = [photos[p] EXCEPT !.isProcessed = TRUE]
                    /\ photos'[p].detectedFaces = <<>>
               ELSE /\ proc'[p].result = "save failed"
                    /\ photos' = photos]_vars
    /\ [](\A p \in PhotoIds :
            (proc[p].pc = "saveNoFaces" \/ (proc[p].result = "completed" /\ proc[p].faceCount = 0))
            => /\ ~proc[p].searched /\ proc[p].matches = <<>>
               /\ notifications[p] = <<>>
               /\ photos[p].detectedFaces = <<>>)

\* A run that completed after detect reported no face, its photo still stored.
C9_Witness ==
    \E p \in PhotoIds :
        /\ proc[p].result = "completed" /\ proc[p].faceCount = 0
        /\ photos[p].exists /\ photos[p].isProcessed
        /\ photos[p].detectedFaces = <<>> /\ notifications[p] = <<>>

\* C10: no face is ever pushed or stored, and no notification ever created, for
\* an identity that does not resolve; the step that finds a match unresolved
\* moves to the next match of the photo (or to the final save after the last
\* one), so that a completed run has stored the faces of exactly its resolving
\* matches, in order, and created their notifications.
C10_UnresolvedMatchSkipped ==
    /\ [](\A p \in PhotoIds :
            /\ \A i \in DOMAIN proc[p].pushed : proc[p].pushed[i].user \in Users
            /\ \A i \in DOMAIN photos[p].detectedFaces : photos[p].detectedFaces[i].user \in Users
            /\ \A i \in DOMAIN notifications[p] : notifications[p][i].recipient \in Users)
    /\ [][\A p \in PhotoIds :
            /\ (proc[p].pc = "findUser" /\ ~Resolves(proc[p].matches[proc[p].k]) /\ proc'[p] # proc[p])
               => /\ proc'[p].k = proc[p].k + 1
                  /\ proc'[p].pc = IF proc[p].k < Len(proc[p].matches) THEN "findUser" ELSE "savePhoto"
                  /\ proc'[p].pushed = proc[p].pushed
                  /\ notifications' = notifications /\ photos' = photos
            /\ (Ends(p) /\ proc'[p].result = "completed" /\ proc'[p].faceCount >= 1)
               => /\ photos'[p].detectedFaces = FacesOf(ResolvedMatches(proc'[p].matches))
                  /\ notifications'[p] = TagsOf(ResolvedMatches(proc'[p].matches), p)]_vars

\* A completed run whose first match did not resolve and whose second did: the
\* second match's face is stored and its notification created.
C10_Witness ==
    \E p \in PhotoIds :
        /\ proc[p].result = "completed"
        /\ Len(proc[p].matches) = 2
        /\ ~Resolves(proc[p].matches[1]) /\ Resolves(proc[p].matches[2])
        /\ photos[p].detectedFaces = <<DetectedFace(proc[p].matches[2])>>
        /\ notifications[p] = <<PhotoTagged(proc[p].matches[2], p)>>

\* The detect call or the search call of the run of photo p fails in this step.
RegistryCallFails(p) ==
    /\ proc[p].pc \in {"detectFaces", "searchFaces"}
    /\ proc'[p].pc \notin {"detectFaces", "searchFaces", "saveNoFaces", "findUser", "savePhoto"}

\* C22: when the detect call or the search call of a run fails, the run ends
\* there and nothing else changes: no photo is written, no notification is
\* created, no other run moves; a run that has ended never moves again; and
\* as long as the run's result is that failure, the stored photo has
\* isProcessed false and no face, and no notification relates to it.
C22_RegistryFailureAborts ==
    /\ [][\A p \in PhotoIds :
            /\ RegistryCallFails(p) =>
                  /\ proc'[p].pc = "done"
                  /\ proc'[p].result \in {"detect failed", "search failed"}
                  /\ \A q \in PhotoIds \ {p} : proc'[q] = proc[q]
                  /\ UNCHANGED <<photos, files, notifications, event>>
            /\ proc[p].pc = "done" => proc'[p] = proc[p]]_vars
    /\ [](\A p \in PhotoIds :
            proc[p].result \in {"detect failed", "search failed"}
            => /\ ~photos[p].isProcessed
               /\ photos[p].detectedFaces = <<>>
               /\ notifications[p] = <<>>)

\* A run whose search call failed after detect reported faces; the photo is
\* still stored, unprocessed.
C22_Witness ==
    \E p \in PhotoIds :
        /\ proc[p].result = "search failed" /\ proc[p].faceCount >= 1
        /\ photos[p].exists /\ ~photos[p].isProcessed
        /\ photos[p].detectedFaces = <<>> /\ notifications[p] = <<>>

\* The photo records created, and the runs scheduled, in this step.
CreatedPhotos == {p \in PhotoIds : ~photos[p].exists /\ photos'[p].exists}

ScheduledRuns == {p \in PhotoIds : proc[p].pc # "findPhoto" /\ proc'[p].pc = "findPhoto"}

RunMoves == \E p \in PhotoIds : proc[p].pc # "idle" /\ proc'[p] # proc[p]

\* C24: the step of an upload leaves every photo it created with isProcessed
\* false, no face, and its run scheduled but not started, so that the response
\* is produced before any step of the runs; and no step of a run, whether it
\* goes on, completes or fails, changes the status an upload request is
\* answered with.
C24_UploadDoesNotWait ==
    [][/\ \A p \in CreatedPhotos :
            /\ ~photos'[p].isProcessed
            /\ photos'[p].detectedFaces = <<>>
            /\ proc'[p].pc = "findPhoto"
            /\ notifications'[p] = <<>>
       /\ RunMoves =>
            \A c \in Callers, e \in EventIds, n \in 0..MaxPhotos :
                UploadStatus(c, e, n)' = UploadStatus(c, e, n)]_vars

\* The upload has answered and the run of its photo has not made a step.
C24_Witness ==
    \E p \in PhotoIds :
        /\ photos[p].exists /\ ~photos[p].isProcessed
        /\ proc[p].pc = "findPhoto"
        /\ p \in files

\* C26: a photo record or its file goes away only by a deletePhoto request
\* of the photo's uploader or of the event's creator, and then both go away
\* together; a deletePhoto request answered 401 or 404 leaves every photo
\* record and every file as they were.
C26_DeleteByUploaderOrCreator ==
    [][/\ \A p \in PhotoIds :
            ((photos[p].exists /\ ~photos'[p].exists) \/ (p \in files /\ p \notin files'))
            => /\ ~photos'[p].exists /\ p \notin files'
               /\ event.exists
               /\ \E c \in Users :
                    /\ c = photos[p].uploader \/ c = event.creator
                    /\ DeletePhoto(c, p)
       /\ \A c \in Callers, p \in PhotoIds :
            DeletePhoto(c, p) =>
                IF c \in Users /\ photos[p].exists /\ event.exists
                   /\ (c = photos[p].uploader \/ c = event.creator)
                THEN ~photos'[p].exists /\ p \notin files'
                ELSE photos' = photos /\ files' = files]_vars

\* A photo was deleted, record and file, while its run had not ended.
C26_Witness ==
    \E p \in PhotoIds :
        /\ proc[p].pc \notin {"idle", "done"}
        /\ ~photos[p].exists /\ p \notin files

\* C27: the stored photo never has a face while its isProcessed is false; a
\* stored photo changes only by the one save of its run, which sets the flag
\* and stores the faces together, after detectFaces and, when faces were
\* detected, searchFaces and every iteration of the loop have completed; and
\* a stored photo whose isProcessed is true never changes again while it
\* exists.
C27_SingleWrite ==
    /\ [](\A p \in PhotoIds : photos[p].detectedFaces # <<>> => photos[p].isProcessed)
    /\ [][\A p \in PhotoIds :
            (photos[p].exists /\ photos'[p].exists /\ photos'[p] # photos[p])
            => /\ ~photos[p].isProcessed /\ photos[p].detectedFaces = <<>>
               /\ photos'[p] = [photos[p] EXCEPT !.isProcessed = TRUE,
                                                 !.detectedFaces = proc[p].pushed]
               /\ proc[p].pc \in {"saveNoFaces", "savePhoto"}
               /\ proc[p].pc = "savePhoto" =>
                     proc[p].searched /\ proc[p].k > Len(proc[p].matches)
               /\ proc'[p].pc = "done"]_vars

\* The run has ended and the stored photo has its flag set and a face.
C27_Witness ==
    \E p \in PhotoIds :
        /\ proc[p].pc = "done"
        /\ photos[p].exists /\ photos[p].isProcessed
        /\ Len(photos[p].detectedFaces) >= 1
        /\ photos[p].detectedFaces = proc[p].pushed

\* C28: at the step that ends the run of a photo, completed or aborted, every
\* notification created for the photo has a face stored on the photo for the
\* notification's recipient.
C28_NotificationsHaveFaces ==
    [][\A p \in PhotoIds :
        Ends(p) =>
            \A i \in DOMAIN notifications'[p] :
                \E j \in DOMAIN photos'[p].detectedFaces :
                    photos'[p].detectedFaces[j].user = notifications'[p][i].recipient]_vars

\* The run of photo p reloads its photo, or the photo's event, and finds none.
ReloadFindsNone(p) ==
    \/ proc[p].pc = "findPhoto" /\ ~photos[p].exists /\ proc'[p] # proc[p]
    \/ proc[p].pc = "findEvent" /\ ~event.exists /\ proc'[p] # proc[p]

\* C29: a run that finds no photo, or no event, at its reload ends there
\* without having called the registry and without any change to the photos,
\* the files, the notifications or the event; every run that ends has ended
\* by completing, by such a return or in the catch of processPhoto; and the
\* record of a photo that was deleted is never stored again, whatever the
\* step of its run the deletion met.
C29_ReloadAbortsNoRecreate ==
    /\ [][\A p \in PhotoIds :
            /\ ReloadFindsNone(p) =>
                  /\ proc'[p].pc = "done"
                  /\ proc'[p].result \in {"photo not found", "event not found"}
                  /\ proc'[p].faceCount = 0 /\ ~proc'[p].searched
                  /\ proc'[p].matches = <<>> /\ proc'[p].pushed = <<>>
                  /\ UNCHANGED <<photos, files, notifications, event>>
            /\ (proc[p].pc # "idle" /\ ~photos[p].exists) =>
                  /\ ~photos'[p].exists
                  /\ p \notin files']_vars
    /\ [](\A p \in PhotoIds :
            proc[p].pc = "done" =>
                proc[p].result \in {"completed", "photo not found", "event not found",
                                    "detect failed", "search failed",
                                    "notification failed", "save failed"})

\* The photo was deleted before its run reloaded it: the run has ended, nothing
\* was created.
C29_Witness ==
    \E p \in PhotoIds :
        /\ proc[p].pc = "done" /\ proc[p].result = "photo not found"
        /\ ~photos[p].exists /\ notifications[p] = <<>>

\* The results of a run that did not reach its save, or whose save failed.
Aborts ==
    {"photo not found", "event not found", "detect failed", "search failed",
     "notification failed", "save failed"}

\* C30, checked under PhotoLiveSpec: every scheduled run eventually ends; a
\* run ends without the stored isProcessed of its photo being true only when
\* its photo or its event was missing at the reload, when detectFaces,
\* searchFaces or the creation of a notification failed, or when the photo
\* was deleted before the save; in every other case the step that ends the
\* run leaves the stored isProcessed true.
C30_RunsEndProcessed ==
    /\ \A p \in PhotoIds : (proc[p].pc # "idle") ~> (proc[p].pc = "done")
    /\ [][\A p \in PhotoIds :
            Ends(p) =>
                /\ proc'[p].result \notin Aborts =>
                      /\ proc'[p].result = "completed"
                      /\ photos'[p].exists /\ photos'[p].isProcessed
                /\ proc'[p].result \in {"photo not found", "save failed"} => ~photos[p].exists
                /\ proc'[p].result = "event not found" => ~event.exists]_vars

\* A run with a resolving match has ended and left isProcessed true, its
\* notification created.
C30_Witness ==
    \E p \in PhotoIds :
        /\ proc[p].pc = "done" /\ proc[p].result = "completed"
        /\ photos[p].exists /\ photos[p].isProcessed
        /\ Len(proc[p].matches) >= 1 /\ Len(notifications[p]) >= 1

----------------------------------------------------------------------------
(* Properties of the event document, checked under EventSpec *)

\* C11: in every state reachable by the handlers that write the event document,
\* updateEvent with any request body included, the event's creator is the
\* creator recorded by createEvent.
C11_CreatorImmutable == event.creator = InitEvent.creator

----------------------------------------------------------------------------
(* Properties of createNotification, checked under NotifySpec *)

\* The record of the call in flight, as the collection holds it.
StoredNotification == notifications[notified.data.relatedPhoto][notified.index]

HasStoredNotification ==
    notified.index \in DOMAIN notifications[notified.data.relatedPhoto]

\* C19: when the record has been created and the delivery of the email, or
\* the save of isSent that follows it, fails, nothing is thrown:
\* createNotification returns the notification to its caller, the record is
\* still stored and the stored isSent is still false.
C19_DeliveryFailureSwallowed ==
    [][LET failedSend == /\ notified.pc = "send"
                         /\ outbox' # outbox
                         /\ ~outbox'[Len(outbox')].sent
           failedSave == /\ notified.pc = "saveSent"
                         /\ notified' # notified
                         /\ notifications' = notifications
       IN  (failedSend \/ failedSave) =>
               /\ notified'.pc = "returned"
               /\ notified'.index = notified.index
               /\ notified'.data = notified.data
               /\ HasStoredNotification'
               /\ StoredNotification' = notified.data
               /\ ~StoredNotification'.isSent]_vars

C19_Witness ==
    /\ notified.pc = "returned"
    /\ notified.data.email # NoEmail
    /\ HasStoredNotification
    /\ ~StoredNotification.isSent
    /\ Len(outbox) > 0

\* C20: the record is created before any delivery is attempted: an email is
\* handed to sendEmail only by a call whose record is stored.  When the
\* creation fails the call throws, no record is stored for it and no email is
\* handed to sendEmail; when it succeeds exactly the record of the data is
\* added, and no email has been sent by that step.
C20_CreateBeforeDelivery ==
    [][/\ outbox' # outbox =>
            /\ notified.pc = "send"
            /\ HasStoredNotification
            /\ StoredNotification = notified.data
       /\ (notified.pc = "create" /\ notified'.pc = "thrown") =>
            /\ UNCHANGED <<notifications, outbox>>
            /\ notified'.index = 0
       /\ (notified.pc = "create" /\ notified'.pc \notin {"create", "thrown"}) =>
            /\ notifications'[notified.data.relatedPhoto] =
                  Append(notifications[notified.data.relatedPhoto], notified.data)
            /\ outbox' = outbox
       /\ notified.pc = "thrown" => UNCHANGED <<notifications, outbox>>]_vars

C20_Witness ==
    /\ notified.pc = "thrown"
    /\ notified.data.email = "a@x.com"
    /\ notified.index = 0
    /\ \A p \in DOMAIN notifications : notifications[p] = <<>>
    /\ outbox = <<>>

----------------------------------------------------------------------------
(* Properties of the notification records, checked under NotifyReadSpec *)

\* The ids of the stored notification records.
NotificationIds ==
    {id \in (DOMAIN notifications) \X (1..MaxNotifications) :
        id[2] \in DOMAIN notifications[id[1]]}

\* The emails handed to sendEmail for the record of that id.
DeliveriesOf(id) == {j \in DOMAIN outbox : outbox[j].notification = id}

\* C21: the stored isSent of a record never goes back to false; it becomes
\* true only by the save of the createNotification call that created the
\* record, after sendEmail resolved for that record; and at most one email is
\* ever handed to sendEmail for a record.
C21_SentOnceByNotify ==
    /\ [][\A id \in NotificationIds :
            LET before == notifications[id[1]][id[2]]
                after  == notifications'[id[1]][id[2]]
            IN  /\ id \in NotificationIds'
                /\ before.isSent => after.isSent
                /\ (~before.isSent /\ after.isSent) =>
                      /\ notified.pc = "saveSent"
                      /\ NotificationId(notified) = id
                      /\ \E j \in DeliveriesOf(id) : outbox[j].sent]_vars
    /\ [](\A id \in NotificationIds : Cardinality(DeliveriesOf(id)) <= 1)
    /\ [](\A j \in DOMAIN outbox : outbox[j].notification \in NotificationIds)

\* A record marked read whose delivery failed: one attempt, isSent false, the
\* call returned; and another record that was sent.
C21_Witness ==
    \E id \in NotificationIds, other \in NotificationIds :
        /\ notifications[id[1]][id[2]].isRead
        /\ ~notifications[id[1]][id[2]].isSent
        /\ \E j \in DeliveriesOf(id) : ~outbox[j].sent
        /\ notifications[other[1]][other[2]].isSent
        /\ notified.pc = "returned"

----------------------------------------------------------------------------
(* Properties of sendInvitations, checked under SendSpec *)

\* The last response is an accepted sendInvitations request.
Sent == "ids" \in DOMAIN view /\ view.http = 200

\* The entries of a response list, or the requested ids, that name the id.
EntriesOf(list, id) == {i \in DOMAIN list : list[i].id = id}

RequestsOf(ids, id) == {k \in DOMAIN ids : ids[k] = id}

\* A step of sendInvitations: only it writes the response, hands emails to
\* sendEmail or creates notifications here.
SendStep == view' # view \/ outbox' # outbox \/ notifications' # notifications

\* C25 as stated: every requested id is in exactly one of the sent list and
\* the failed list of the response.
C25_EachIdInOneList ==
    Sent => \A k \in DOMAIN view.ids :
                (EntriesOf(view.data.sent, view.ids[k]) # {})
                    # (EntriesOf(view.data.failed, view.ids[k]) # {})

\* C25, amended: every requested entry gives exactly one entry of the
\* response, in the sent list or in the failed list with its reason: an id
\* requested n times has n entries over the two lists, so that an id
\* requested once is in exactly one list, and no entry is left out after a
\* failed one; and the request leaves the event document, every invitee's
\* status, code and binding included, as it was.
C25_EachEntryInOneList ==
    /\ [](Sent =>
            /\ Len(view.data.sent) + Len(view.data.failed) = Len(view.ids)
            /\ \A id \in InviteeIds :
                  /\ Cardinality(EntriesOf(view.data.sent, id))
                        + Cardinality(EntriesOf(view.data.failed, id))
                     = Cardinality(RequestsOf(view.ids, id))
                  /\ Cardinality(RequestsOf(view.ids, id)) = 1 =>
                        (EntriesOf(view.data.sent, id) # {})
                            # (EntriesOf(view.data.failed, id) # {})
            /\ \A i \in DOMAIN view.data.failed :
                  view.data.failed[i].reason
                      \in {"Invitee not found in event", "Failed to send email"})
    /\ [][SendStep => UNCHANGED <<event, nextCode, issued, last>>]_vars

\* Two different ids requested: the first failed, the second was sent.
C25_Witness ==
    /\ Sent
    /\ Len(view.ids) = 2 /\ view.ids[1] # view.ids[2]
    /\ Len(view.data.failed) = 1 /\ view.data.failed[1].id = view.ids[1]
    /\ Len(view.data.sent) = 1 /\ view.data.sent[1].id = view.ids[2]
    /\ Len(event.invitees) = 2

----------------------------------------------------------------------------
(* Properties of interleaved processPhoto runs, checked under PairSpec *)

\* The notifications a run has created when it ended: one per face it pushed,
\* but for the last face when the creation of its notification failed.
CreatedBy(run, p) ==
    LET faces == IF run.result = "notification failed"
                 THEN SubSeq(run.pushed, 1, Len(run.pushed) - 1) ELSE run.pushed
    IN  [i \in DOMAIN faces |->
            [recipient |-> faces[i].user, email |-> NoEmail, type |-> "photo_tagged",
             relatedEvent |-> TheEvent, relatedPhoto |-> p, isRead |-> FALSE,
             isSent |-> FALSE]]

\* The stored photo a run leaves when it runs alone on a new photo of that uploader.
LeftBy(run, uploader) ==
    IF run.result = "completed"
    THEN [NewPhoto(uploader) EXCEPT !.detectedFaces = run.pushed, !.isProcessed = TRUE]
    ELSE NewPhoto(uploader)

\* C31: a step of the run of one photo changes nothing of any other photo:
\* neither its record, nor its notifications, nor its run, and no file and not
\* the event; every notification created for a photo references that photo;
\* and when a run has ended, the stored photo and its notifications are those
\* given by what the registry and the notification store answered to that run
\* alone, whatever the other runs did in between.
C31_RunsIndependent ==
    /\ [][\A p \in PairIds :
            proc'[p] # proc[p] =>
                /\ \A q \in PairIds \ {p} :
                      /\ photos'[q] = photos[q]
                      /\ notifications'[q] = notifications[q]
                      /\ proc'[q] = proc[q]
                /\ files' = files /\ event' = event]_vars
    /\ [](\A p \in PairIds :
            /\ \A i \in DOMAIN notifications[p] : notifications[p][i].relatedPhoto = p
            /\ proc[p].pc = "done" =>
                  /\ photos[p] = LeftBy(proc[p], "b2")
                  /\ notifications[p] = CreatedBy(proc[p], p)
                  /\ proc[p].result = "completed" =>
                        proc[p].pushed = FacesOf(ResolvedMatches(proc[p].matches)))

\* Two runs have ended, one completed with a face and a notification, the
\* other aborted at its search call: each photo has what its own run left.
C31_Witness ==
    \E p \in PairIds, q \in PairIds :
        /\ p # q
        /\ proc[p].result = "completed" /\ Len(photos[p].detectedFaces) >= 1
        /\ Len(notifications[p]) >= 1 /\ photos[p].isProcessed
        /\ proc[q].result = "search failed" /\ ~photos[q].isProcessed
        /\ notifications[q] = <<>>

----------------------------------------------------------------------------
(* Properties of interleaved addInvitees calls, checked under RaceSpec *)

\* C33: the stored invitee list never has two entries for one user, nor two
\* email-only entries for one email, however the addInvitees calls that name
\* the user or the email interleave.
C33_NoDuplicateUnderRace ==
    \A i \in DOMAIN event.invitees, j \in DOMAIN event.invitees :
        i # j => InviteeKey(event.invitees[i]) # InviteeKey(event.invitees[j])

\* The save of call c is accepted in this step.
Saves(c) == calls[c].pc = "save" /\ calls'[c].pc = "idle" /\ last'.http = 200

\* C32: when addInvitees calls interleave, the list stored by an accepted
\* save is the list of the call that saves, as that call read it and changed
\* it in memory, whatever another call has saved since the read.
C32_LastWriteWins ==
    [][\A c \in RaceIds : Saves(c) => event'.invitees = calls[c].doc]_vars

====
